---- MODULE Spec2Model ----
(***************************************************************************)
(* Model of pyBusPirateLite/BitBang.py: the BitBang class, a synchronous,  *)
(* single-threaded driver for the Bus Pirate binary bitbang mode.          *)
(*                                                                         *)
(* Every public method is one atomic action.  Its inputs are the call's    *)
(* arguments and the results the serial port delivers to the reads made    *)
(* during the call.  The action records what the call did in `log` (the    *)
(* ordered list of collaborator calls) and how it ended in `result`.       *)
(*                                                                         *)
(* BBIO_base (write, response, timeout, check_mode, enter_bb, recurse,     *)
(* recurse_end, the mode attribute) is imported by BitBang.py but its      *)
(* source is not part of src/; those helpers follow the collaborator       *)
(* interface of the specification.                                         *)
(***************************************************************************)
EXTENDS Integers, Sequences, FiniteSets, TLC

VARIABLES
    mode,            \* self.mode, the session mode kept by BBIO_base
    recurse_count,   \* attempt counter of the Retry Helper
    op,              \* name of the method called last ("init" after __init__)
    args,            \* its arguments, a sequence of integers
    result,          \* how that call ended: return value or exception
    log,             \* collaborator calls made by that call, in order
    delivered,       \* what the port delivered to the reads whose value it used
    locals           \* n, Prescaler, PRy, OCR of set_pwm_frequency at its end

vars == <<mode, recurse_count, op, args, result, log, delivered, locals>>

----------------------------------------------------------------------------
(* Bounds of the model                                                     *)

\* Attempts the Retry Helper grants before it gives up.
MaxRecurse == 2

----------------------------------------------------------------------------
(* Python values                                                           *)

\* A bytes object and a str object holding the same code points are
\* different Python 3 values: b'\x01' != '\x01' is True.
PyBytes(v) == [t |-> "bytes", v |-> v]
PyStr(v) == [t |-> "str", v |-> v]

\* Python's != between two such objects.
PyNe(a, b) == a # b

\* Truth value of a bytes or str object: empty is false.
PyTruth(a) == Len(a.v) > 0

\* How a call ends.
Return(x) == [kind |-> "return", exc |-> "", val |-> x]
ReturnNone == [kind |-> "None", exc |-> "", val |-> 0]
Raise(e) == [kind |-> "raise", exc |-> e, val |-> 0]

\* Python's truth value of a call's return value (None and 0 are false).
Truthy(r) == r.kind = "return" /\ r.val # 0

\* x >> 8 and x & 0xFF on non-negative integers.
Shr8(x) == x \div 256
And0xFF(x) == x % 256

----------------------------------------------------------------------------
(* Entries of the log                                                      *)

EvWrite(b) == [e |-> "write", x |-> b]
EvResponse(n) == [e |-> "response", x |-> n]
EvTimeout(k) == [e |-> "timeout", x |-> k]
EvFlush == [e |-> "flushInput", x |-> 0]
EvEnterBB == [e |-> "enter_bb", x |-> 0]
EvRecurse == [e |-> "recurse", x |-> 0]
EvRecurseEnd == [e |-> "recurse_end", x |-> 0]

----------------------------------------------------------------------------
(* Collaborators (BBIO_base and the serial port).  A frame `st` carries    *)
(* the session state a call works on: [mode, recurse_count, log].          *)

\* self.write(byte): transmit one byte.
write(st, b) == [st EXCEPT !.log = Append(@, EvWrite(b))]

\* self.timeout(k * self.minDelay): wait.
timeout(st, k) == [st EXCEPT !.log = Append(@, EvTimeout(k))]

\* The frame after self.response(n, raw) has been called.
response_st(st, n) == [st EXCEPT !.log = Append(@, EvResponse(n))]

\* The value self.response(n, raw) returns when the port delivers `data`
\* (at most n bytes; fewer on a timeout): bytes when raw, else str.
response(n, raw, data) ==
    LET got == SubSeq(data, 1, IF Len(data) < n THEN Len(data) ELSE n)
    IN  IF raw THEN PyBytes(got) ELSE PyStr(got)

\* self.port.flushInput(): discard buffered unread input.
flushInput(st) == [st EXCEPT !.log = Append(@, EvFlush)]

\* self.enter_bb(): redo the handshake; the session is in bitbang mode.
enter_bb(st) == [st EXCEPT !.log = Append(@, EvEnterBB), !.mode = "bb"]

\* self.check_mode(name): TRUE when the call passes, FALSE when it raises.
check_mode(st, name) == st.mode = name

\* self.recurse_end(): the stop signal; the attempt counter is reset.
recurse_end(st) ==
    [st EXCEPT !.log = Append(@, EvRecurseEnd), !.recurse_count = 0]

\* self.recurse(function, *args) grants the re-invocation while attempts
\* remain; recurse_st is the frame the re-invoked function starts from.
recurse_ok(st) == st.recurse_count < MaxRecurse
recurse_st(st) ==
    [st EXCEPT !.log = Append(@, EvRecurse), !.recurse_count = @ + 1]

\* What a method hands back: the frame it leaves and how it ended.
Out(st, res) == [st |-> st, res |-> res]

----------------------------------------------------------------------------
(* ADC: single read and streaming                                          *)

\* (ret[0] << 8) + ret[1]
Shl8(x) == x * 256
\* Faulty variant of raw16: the second byte is taken as the high one.
raw16_low_first(ret) == Shl8(ret.v[2]) + ret.v[1]

raw16(ret) == Shl8(ret.v[1]) + ret.v[2]

\* voltage = (raw * 6.6) / 1024, kept exact as the integer raw * 66, that
\* is in units of 1/10240 V; `voltage < 10` is then `raw * 66 < 102400`.
VoltageOf(raw) == raw * 66
Ten == 102400
VoltLt(v, w) == v < w

\* Faulty variant of adc: the single read marks the session as streaming.
adc_marks_streaming(st, data) ==
    LET st1 == response_st(timeout(write([st EXCEPT !.mode = "adc"], 20), 1), 2)
        ret == response(2, TRUE, data)
    IN  IF Len(ret.v) < 2
            THEN Out(st1, Raise("IndexError"))
            ELSE Out(st1, Return(VoltageOf(raw16(ret))))

\* The adc property: write 0x14, wait, read 2 bytes, decode and scale.
\* Indexing a bytes object shorter than 2 raises IndexError.
adc(st, data) ==
    LET st1 == response_st(timeout(write(st, 20), 1), 2)
        ret == response(2, TRUE, data)
    IN  IF Len(ret.v) < 2
            THEN Out(st1, Raise("IndexError"))
            ELSE Out(st1, Return(VoltageOf(raw16(ret))))

\* start_getting_adc_voltages: self.write(0x15), nothing else.
start_getting_adc_voltages(st) == Out(write(st, 21), ReturnNone)

\* Faulty variant of adc_sample_keep: the padding byte is read and the input
\* flushed for a kept sample too.
adc_sample_keep_padded(st, voltage) ==
    Out(recurse_end(flushInput(response_st(st, 1))), Return(voltage))

\* get_next_adc_voltage, the sample is kept: recurse_end() and return it.
adc_sample_keep(st, voltage) == Out(recurse_end(st), Return(voltage))

\* get_next_adc_voltage, the sample is dropped: read one more byte and
\* flush the input; the frame from which self.recurse(...) is called.
adc_sample_drop(st) == flushInput(response_st(st, 1))

\* Faulty variant of get_next_adc_voltage: after a dropped sample it calls
\* itself directly instead of through self.recurse; it goes on for as long
\* as the port delivers samples to drop.
RECURSIVE get_next_unguarded(_, _)
get_next_unguarded(st, rx) ==
    IF rx = <<>> THEN Out(st, Raise("RecursionError"))
    ELSE LET st1 == response_st(st, 2)
             ret == response(2, TRUE, Head(rx))
         IN  IF Len(ret.v) < 2
                 THEN Out(st1, Raise("IndexError"))
                 ELSE LET voltage == VoltageOf(raw16(ret))
                      IN  IF VoltLt(voltage, Ten)
                              THEN adc_sample_keep(st1, voltage)
                              ELSE get_next_unguarded(adc_sample_drop(st1), Tail(rx))

\* get_next_adc_voltage; rx holds what the port delivers to the successive
\* 2-byte reads of the call.
RECURSIVE get_next_adc_voltage(_, _)
get_next_adc_voltage(st, rx) ==
    LET st1 == response_st(st, 2)
        ret == response(2, TRUE, Head(rx))
    IN  IF Len(ret.v) < 2
            THEN Out(st1, Raise("IndexError"))
            ELSE LET voltage == VoltageOf(raw16(ret))
                 IN  IF VoltLt(voltage, Ten)
                         THEN adc_sample_keep(st1, voltage)
                         ELSE LET st2 == adc_sample_drop(st1)
                              IN  IF recurse_ok(st2)
                                      THEN get_next_adc_voltage(recurse_st(st2), Tail(rx))
                                      ELSE Out(st2, Raise("RetryError"))

\* The loop of stop_getting_adc_voltages: for i in range(5), i counted
\* from 0; rs[i + 1] is what the port delivers to the read of round i.
RECURSIVE stop_loop(_, _, _)
stop_loop(st, i, rs) ==
    IF i >= 5
        THEN st
        ELSE LET st1 == response_st(write(st, 0), 1)
                 r == response(1, TRUE, rs[i + 1])
             IN  IF PyTruth(r) THEN st1 ELSE stop_loop(st1, i + 1, rs)

\* Faulty variant of stop_getting_adc_voltages: the input is flushed before
\* the mode is checked.
stop_flush_first(st, rs) ==
    IF ~check_mode(st, "adc")
        THEN Out(flushInput(st), Raise("ModeError"))
        ELSE Out(enter_bb(flushInput(stop_loop(flushInput(st), 0, rs))), Return(1))

\* stop_getting_adc_voltages.
stop_getting_adc_voltages(st, rs) ==
    IF ~check_mode(st, "adc")
        THEN Out(st, Raise("ModeError"))
        ELSE Out(enter_bb(flushInput(stop_loop(flushInput(st), 0, rs))), Return(1))

----------------------------------------------------------------------------
(* Self test                                                               *)

\* ord(errors): a str of length 1 gives its code point, else TypeError.
selftest_return(errors) ==
    IF Len(errors.v) = 1 THEN Return(errors.v[1]) ELSE Raise("TypeError")

\* Faulty variant of selftest: the two opcodes are exchanged.
selftest_swapped(st, complete, d1, d2) ==
    LET st1 == write(st, IF complete THEN 16 ELSE 17)
        st2 == response_st(timeout(st1, 50), 1)
        errors == response(1, FALSE, d1)
        st3 == response_st(write(st2, 255), 1)
    IN  IF PyNe(response(1, FALSE, d2), PyStr(<<1>>))
            THEN Out(st3, Raise("ProtocolError"))
            ELSE Out(st3, selftest_return(errors))

\* Faulty variant of selftest: 0xFF is written only after the second read.
selftest_exit_late(st, complete, d1, d2) ==
    LET st1 == write(st, IF complete THEN 17 ELSE 16)
        st2 == response_st(timeout(st1, 50), 1)
        errors == response(1, FALSE, d1)
        st3 == write(response_st(st2, 1), 255)
    IN  IF PyNe(response(1, FALSE, d2), PyStr(<<1>>))
            THEN Out(st3, Raise("ProtocolError"))
            ELSE Out(st3, selftest_return(errors))

\* selftest(complete); d1 and d2 are delivered to the two reads.
selftest(st, complete, d1, d2) ==
    LET st1 == write(st, IF complete THEN 17 ELSE 16)
        st2 == response_st(timeout(st1, 50), 1)
        errors == response(1, FALSE, d1)
        st3 == response_st(write(st2, 255), 1)
    IN  IF PyNe(response(1, FALSE, d2), PyStr(<<1>>))
            THEN Out(st3, Raise("ProtocolError"))
            ELSE Out(st3, selftest_return(errors))

----------------------------------------------------------------------------
(* PWM                                                                     *)

\* Faulty variant of setup_PWM: both registers are sent low byte first.
setup_PWM_low_first(st, prescaler, dutycycle, period, data) ==
    LET st1 == write(write(st, 18), prescaler)
        st2 == write(write(st1, And0xFF(dutycycle)), And0xFF(Shr8(dutycycle)))
        st3 == write(write(st2, And0xFF(period)), And0xFF(Shr8(period)))
        st4 == response_st(timeout(st3, 10), 1)
    IN  IF PyNe(response(1, TRUE, data), PyStr(<<1>>))
            THEN Out(st4, Raise("ValueError"))
            ELSE Out(st4, ReturnNone)

\* setup_PWM(prescaler, dutycycle, period): six writes, a wait, one raw
\* read compared with the str literal '\x01'; no return statement.
setup_PWM(st, prescaler, dutycycle, period, data) ==
    LET st1 == write(write(st, 18), prescaler)
        st2 == write(write(st1, And0xFF(Shr8(dutycycle))), And0xFF(dutycycle))
        st3 == write(write(st2, And0xFF(Shr8(period))), And0xFF(period))
        st4 == response_st(timeout(st3, 10), 1)
    IN  IF PyNe(response(1, TRUE, data), PyStr(<<1>>))
            THEN Out(st4, Raise("ValueError"))
            ELSE Out(st4, ReturnNone)

\* disable_PWM.
disable_PWM(st, data) ==
    LET st1 == response_st(timeout(write(st, 19), 10), 1)
    IN  IF PyNe(response(1, TRUE, data), PyStr(<<1>>))
            THEN Out(st1, Raise("ValueError"))
            ELSE Out(st1, ReturnNone)

\* Names bound at module level of BitBang.py (its imports and its class)
\* and the parameters of set_pwm_frequency.
ModuleGlobals == {"serial", "BBIO_base", "BPError", "ProtocolError", "BitBang"}
PwmParams == {"self", "frequency", "dutycycle"}
NameBound(name) == name \in PwmParams \cup ModuleGlobals

\* Value of a module-level name; DutyCycle has none.
GlobalValue(name) == CHOOSE v \in {} : name \in ModuleGlobals

\* int(x) of Python for the quotient a / b, b > 0: truncation toward zero.
Trunc(a, b) == IF a >= 0 THEN a \div b ELSE -((-a) \div b)

\* Frequencies are integers in units of 1/10 Hz and duty cycles integers
\* in percent, so that the float expressions below stay exact:
\*   PwmPeriod / (Tcy * Prescaler) = (Fosc / 2) * 10 / (frequency * Prescaler)
Fosc == 24000000
PrescalerList == <<1, 8, 64, 256>>
PRyOf(frequency, Prescaler) ==
    Trunc(((Fosc \div 2) * 10) - frequency * Prescaler, frequency * Prescaler)
OCROf(PRy, DutyCycle) == Trunc(PRy * DutyCycle, 100)

NoLocals == [bound |-> FALSE, n |-> 0, Prescaler |-> 0, PRy |-> 0, OCR |-> 0]
PwmLocals(n, frequency, DutyCycle) ==
    [bound |-> TRUE, n |-> n, Prescaler |-> PrescalerList[n + 1],
     PRy |-> PRyOf(frequency, PrescalerList[n + 1]),
     OCR |-> OCROf(PRyOf(frequency, PrescalerList[n + 1]), DutyCycle)]

\* for n in range(4): ... if PRy < 2 ** 16 - 1: break; gives the n of the
\* break, or 4 when the loop runs to its else clause.
RECURSIVE pwm_search(_, _)
pwm_search(frequency, n) ==
    IF n >= 4 THEN 4
    ELSE IF PRyOf(frequency, PrescalerList[n + 1]) < 65535 THEN n
    ELSE pwm_search(frequency, n + 1)

PwmOut(st, res, loc) == [st |-> st, res |-> res, loc |-> loc]

\* set_pwm_frequency(frequency, dutycycle); acks holds what the port
\* delivers to the read of each setup_PWM call.
RECURSIVE set_pwm_frequency(_, _, _, _)
set_pwm_frequency(st, frequency, dutycycle, acks) ==
    IF ~NameBound("DutyCycle")
        THEN PwmOut(st, Raise("NameError"), NoLocals)
    ELSE LET DutyCycle == GlobalValue("DutyCycle")
             n == pwm_search(frequency, 0)
             loc == PwmLocals(IF n >= 4 THEN 3 ELSE n, frequency, DutyCycle)
         IN  IF DutyCycle > 100
                 THEN PwmOut(st, Raise("ValueError"), NoLocals)
             ELSE IF frequency = 0
                 THEN PwmOut(st, Raise("ZeroDivisionError"), NoLocals)
             ELSE IF n >= 4
                 THEN PwmOut(st, Raise("ValueError"), loc)
             ELSE LET o == setup_PWM(st, loc.Prescaler, loc.OCR, loc.PRy, Head(acks))
                  IN  IF o.res.kind = "raise"
                          THEN PwmOut(o.st, o.res, loc)
                      ELSE IF Truthy(o.res)
                          THEN PwmOut(recurse_end(o.st), Return(1), loc)
                      ELSE IF recurse_ok(o.st)
                          THEN set_pwm_frequency(recurse_st(o.st), frequency,
                                                 DutyCycle, Tail(acks))
                      ELSE PwmOut(o.st, Raise("RetryError"), loc)

----------------------------------------------------------------------------
(* Inputs of the calls                                                     *)

\* What the port may deliver to a 1-byte read: nothing (timeout), or a byte.
Reads1 == {<<>>, <<0>>, <<1>>}

\* What the port may deliver to a 2-byte read: a short read, or a sample.
\* 1551 = <<6, 15>> is the largest raw value below 10.0 V, 1552 the
\* smallest one at or above it.
Reads2 == {<<>>, <<6>>, <<6, 15>>, <<6, 16>>, <<255, 255>>}

\* What the port may deliver to the reads of selftest: nothing, or a byte
\* below 0x80, whose decoded form does not depend on the codec.
SelftestReads == Reads1 \cup {<<3>>, <<127>>}

\* Register values and prescaler bytes handed to setup_PWM.
Reg16 == {0, 256, 500, 1000, 65535}
PrescalerArgs == {0, 1, 3}

\* Frequencies in 1/10 Hz (0.5 Hz fits no prescaler, 183 Hz needs index 1,
\* 1000 Hz fits index 0) and duty cycles in percent.
Frequencies == {5, 10, 1830, 10000}
DutyCycles == {-50, 50, 100, 150}

\* All sequences of length n over S.
SeqsOf(S, n) == [1..n -> S]

\* What the port delivers to the reads of successive setup_PWM calls: the
\* device refuses (0x00) a number of times and acknowledges (0x01) from
\* then on.
AckSeqs ==
    {s \in SeqsOf({<<0>>, <<1>>}, MaxRecurse + 1) :
        \A i \in 1..MaxRecurse : s[i] = <<1>> => s[i + 1] = <<1>>}

----------------------------------------------------------------------------
(* The state machine                                                       *)

Frame == [mode |-> mode, recurse_count |-> recurse_count, log |-> <<>>]

\* Number of entries of a log equal to ev.
Count(lg, ev) == Cardinality({i \in 1..Len(lg) : lg[i] = ev})

\* The state a call leaves behind.
Ended(name, a, o, used, loc) ==
    /\ mode' = o.st.mode
    /\ recurse_count' = o.st.recurse_count
    /\ log' = o.st.log
    /\ result' = o.res
    /\ op' = name
    /\ args' = a
    /\ delivered' = used
    /\ locals' = loc

\* __init__: connect() and enter() leave the session in bitbang mode.
Init ==
    /\ mode = "bb"
    /\ recurse_count = 0
    /\ op = "init"
    /\ args = <<>>
    /\ result = ReturnNone
    /\ log = <<>>
    /\ delivered = <<>>
    /\ locals = NoLocals

Adc ==
    \E data \in Reads2 :
        Ended("adc", <<>>, adc(Frame, data), <<data>>, NoLocals)

StartGettingAdcVoltages ==
    Ended("start_getting_adc_voltages", <<>>,
          start_getting_adc_voltages(Frame), <<>>, NoLocals)

GetNextAdcVoltage ==
    \E samples \in SeqsOf(Reads2, MaxRecurse + 2) :
        LET o == get_next_adc_voltage(Frame, samples)
        IN  Ended("get_next_adc_voltage", <<>>, o,
                  SubSeq(samples, 1, Count(o.st.log, EvResponse(2))), NoLocals)

StopGettingAdcVoltages ==
    \E rs \in SeqsOf({<<>>, <<1>>}, 5) :
        LET o == stop_getting_adc_voltages(Frame, rs)
        IN  Ended("stop_getting_adc_voltages", <<>>, o,
                  SubSeq(rs, 1, Count(o.st.log, EvResponse(1))), NoLocals)

Selftest ==
    \E complete \in BOOLEAN, d1 \in SelftestReads, d2 \in SelftestReads :
        Ended("selftest", <<IF complete THEN 1 ELSE 0>>,
              selftest(Frame, complete, d1, d2), <<d1, d2>>, NoLocals)

SetupPWM ==
    \E prescaler \in PrescalerArgs, dutycycle \in Reg16, period \in Reg16,
       data \in Reads1 :
        Ended("setup_PWM", <<prescaler, dutycycle, period>>,
              setup_PWM(Frame, prescaler, dutycycle, period, data),
              <<data>>, NoLocals)

DisablePWM ==
    \E data \in Reads1 :
        Ended("disable_PWM", <<>>, disable_PWM(Frame, data), <<data>>, NoLocals)

SetPwmFrequency ==
    \E frequency \in Frequencies, dutycycle \in DutyCycles,
       acks \in AckSeqs :
        LET o == set_pwm_frequency(Frame, frequency, dutycycle, acks)
        IN  Ended("set_pwm_frequency", <<frequency, dutycycle>>, o,
                  SubSeq(acks, 1, Count(o.st.log, EvResponse(1))), o.loc)

Next ==
    \/ Adc
    \/ StartGettingAdcVoltages
    \/ GetNextAdcVoltage
    \/ StopGettingAdcVoltages
    \/ Selftest
    \/ SetupPWM
    \/ DisablePWM
    \/ SetPwmFrequency

Spec == Init /\ [][Next]_vars

----------------------------------------------------------------------------
(* Reading a log                                                           *)

IsWrite(ev) == ev.e = "write"
IsResponse(ev) == ev.e = "response"

\* The bytes written by a call, in order.
RECURSIVE BytesOf(_)
BytesOf(lg) ==
    IF lg = <<>> THEN <<>>
    ELSE IF IsWrite(Head(lg)) THEN <<Head(lg).x>> \o BytesOf(Tail(lg))
    ELSE BytesOf(Tail(lg))

\* The number of bytes a call asked the port for.
RECURSIVE BytesAsked(_)
BytesAsked(lg) ==
    IF lg = <<>> THEN 0
    ELSE (IF IsResponse(Head(lg)) THEN Head(lg).x ELSE 0) + BytesAsked(Tail(lg))

\* A 2-byte delivery decoded big-endian, in units of 1/10240 V.
IsSample(d) == Len(d) = 2
SampleVolts(d) == (d[1] * 256 + d[2]) * 66

\* The log of a get_next_adc_voltage call that drops k samples and keeps
\* the next one.
RECURSIVE StreamRounds(_)
StreamRounds(k) ==
    IF k = 0
        THEN <<EvResponse(2), EvRecurseEnd>>
        ELSE <<EvResponse(2), EvResponse(1), EvFlush, EvRecurse>> \o StreamRounds(k - 1)

----------------------------------------------------------------------------
(* ADC streaming: C1 - C4                                                  *)

\* C1: start_getting_adc_voltages writes exactly the byte 0x15, reads
\* nothing, and leaves the session in adc-streaming mode, so that the mode
\* check of a stop_getting_adc_voltages called next passes.
C1_StartEntersStreaming ==
    op = "start_getting_adc_voltages" =>
        /\ log = <<EvWrite(21)>>
        /\ mode = "adc"
        /\ check_mode(Frame, "adc")

\* C2: a stop_getting_adc_voltages call made while the mode is not
\* adc-streaming ends with a ModeError, with nothing written, nothing
\* flushed, no re-entry of bitbang mode, and the mode as it was.
C2_StopOutsideStreaming ==
    [][(op' = "stop_getting_adc_voltages" /\ mode # "adc") =>
           /\ result' = Raise("ModeError")
           /\ log' = <<>>
           /\ mode' = mode]_vars

C2_Witness ==
    /\ op = "stop_getting_adc_voltages"
    /\ result = Raise("ModeError")
    /\ mode = "bb"

\* C3: in a get_next_adc_voltage call every sample below 10.0 V is the last
\* one read and is returned right after recurse_end, with no padding read
\* and no flush; every sample at or above 10.0 V is followed by one 1-byte
\* read, one flush and a re-invocation through the Retry Helper.  A call
\* that returns after k dropped samples has asked for 3k + 2 bytes.
C3_StreamingRounds ==
    op = "get_next_adc_voltage" =>
        /\ \A i \in 1..Len(delivered) :
              (IsSample(delivered[i]) /\ SampleVolts(delivered[i]) < 102400) =>
                  /\ i = Len(delivered)
                  /\ result = Return(SampleVolts(delivered[i]))
                  /\ log = StreamRounds(i - 1)
        /\ \A i \in 1..Len(delivered) :
              (IsSample(delivered[i]) /\ SampleVolts(delivered[i]) >= 102400) =>
                  /\ SubSeq(log, 4 * i - 3, 4 * i - 1)
                         = <<EvResponse(2), EvResponse(1), EvFlush>>
                  /\ (i < Len(delivered) => log[4 * i] = EvRecurse)
        /\ result.kind = "return" =>
              /\ log = StreamRounds(Len(delivered) - 1)
              /\ BytesAsked(log) = 3 * (Len(delivered) - 1) + 2

C3_Witness ==
    /\ op = "get_next_adc_voltage"
    /\ result.kind = "return"
    /\ Len(delivered) = 3
    /\ BytesAsked(log) = 8

\* C4: a stop_getting_adc_voltages call made in adc-streaming mode, that
\* is right after start_getting_adc_voltages, writes 0x00 between one and
\* five times with one 1-byte read after each write and none after the
\* first non-empty read, then flushes, re-enters bitbang mode and returns
\* success, leaving the session in bitbang mode.
C4_StopInStreaming ==
    [][(op = "start_getting_adc_voltages" /\ op' = "stop_getting_adc_voltages") =>
           LET k == Len(delivered')
           IN  /\ result' = Return(1)
               /\ mode' = "bb"
               /\ k \in 1..5
               /\ BytesOf(log') = [i \in 1..k |-> 0]
               /\ \A i \in 1..k : delivered'[i] # <<>> => i = k
               /\ k < 5 => delivered'[k] # <<>>
               /\ Len(log') = 2 * k + 3
               /\ log'[1] = EvFlush
               /\ \A i \in 1..k : /\ log'[2 * i] = EvWrite(0)
                                  /\ log'[2 * i + 1] = EvResponse(1)
               /\ SubSeq(log', 2 * k + 2, 2 * k + 3) = <<EvFlush, EvEnterBB>>]_vars

----------------------------------------------------------------------------
(* PWM: C5 - C10                                                           *)

\* The prescaler search as the documentation states it, for a frequency in
\* 1/10 Hz: the period of divider P, the indices whose period fits, and
\* the smallest of them.
DocPeriod(frequency, P) == (120000000 \div (frequency * P)) - 1
DocFits(frequency) ==
    {i \in 0..3 : DocPeriod(frequency, PrescalerList[i + 1]) < 65535}
DocIndex(frequency) ==
    CHOOSE i \in DocFits(frequency) : \A j \in DocFits(frequency) : i <= j

\* Arguments set_pwm_frequency accepts: a duty cycle in [0, 1] and a
\* frequency some prescaler fits.
DutyInRange(a) == a[2] >= 0 /\ a[2] <= 100
PwmAccepted(a) == DutyInRange(a) /\ DocFits(a[1]) # {}

\* The six bytes of one PWM configuration.
ConfigBytes(prescaler, duty, period) ==
    <<18, prescaler, duty \div 256, duty % 256, period \div 256, period % 256>>

\* C5: when every setup read of a set_pwm_frequency call with accepted
\* arguments is answered 0x01, the call returns success after exactly one
\* 6-byte configuration sequence and one read.
C5_AckedSetupSucceedsOnce ==
    (/\ op = "set_pwm_frequency"
     /\ PwmAccepted(args)
     /\ \A i \in 1..Len(delivered) : delivered[i] = <<1>>) =>
        /\ result = Return(1)
        /\ Len(BytesOf(log)) = 6
        /\ Len(delivered) = 1

\* C6: when no setup read of a set_pwm_frequency call with accepted
\* arguments is answered 0x01, the configuration sequence is transmitted
\* again, every transmission equal to the first, at most once more per
\* attempt the Retry Helper grants.
C6_UnackedSetupRetried ==
    (/\ op = "set_pwm_frequency"
     /\ PwmAccepted(args)
     /\ \A i \in 1..Len(delivered) : delivered[i] # <<1>>) =>
        LET w == BytesOf(log)
        IN  /\ Len(w) % 6 = 0
            /\ Len(w) \div 6 \in 2..(MaxRecurse + 1)
            /\ \A j \in 1..Len(w) : w[j] = w[((j - 1) % 6) + 1]

\* C7: for a duty cycle in [0, 1] the search ends on the smallest prescaler
\* index whose truncated period is below 65535, or with the invalid
\* argument error when there is none; 1000 Hz at duty 0.5 gives index 0
\* and period 11999.
C7_SmallestPrescaler ==
    (op = "set_pwm_frequency" /\ DutyInRange(args)) =>
        /\ IF DocFits(args[1]) = {}
               THEN result = Raise("ValueError")
               ELSE /\ locals.bound
                    /\ locals.n = DocIndex(args[1])
                    /\ locals.PRy = DocPeriod(args[1], PrescalerList[locals.n + 1])
        /\ args = <<10000, 50>> => (locals.bound /\ locals.n = 0 /\ locals.PRy = 11999)

\* C8: a duty cycle outside [0, 1] makes set_pwm_frequency fail with the
\* invalid argument error with nothing written; a duty cycle inside [0, 1]
\* with a frequency that fits does not end with that error.
C8_DutyRangeChecked ==
    op = "set_pwm_frequency" =>
        /\ ~DutyInRange(args) => (result = Raise("ValueError") /\ BytesOf(log) = <<>>)
        /\ PwmAccepted(args) => result.exc # "ValueError"

\* C9: the byte set_pwm_frequency transmits after opcode 0x12 is the index
\* in 0..3 of the selected prescaler.
C9_PrescalerIndexSent ==
    (op = "set_pwm_frequency" /\ PwmAccepted(args)) =>
        LET w == BytesOf(log)
        IN  /\ Len(w) >= 2
            /\ w[1] = 18
            /\ w[2] \in 0..3
            /\ w[2] = DocIndex(args[1])

\* C10: setup_PWM(prescaler, duty, period) writes 0x12, prescaler, duty
\* high, duty low, period high, period low, these six bytes and no others,
\* before it reads; (0, 500, 1000) gives 0x12 0x00 0x01 0xF4 0x03 0xE8.
\* The last conjunct runs the method over every 16-bit value of both
\* registers.
C10_SetupBytes ==
    op = "setup_PWM" =>
        /\ BytesOf(log) = ConfigBytes(args[1], args[2], args[3])
        /\ \A i \in 1..6 : IsWrite(log[i])
        /\ \E i \in 7..Len(log) : IsResponse(log[i])
        /\ args = <<0, 500, 1000>> =>
              /\ BytesOf(log) = <<18, 0, 1, 244, 3, 232>>
              /\ \A d \in 0..65535 :
                    BytesOf(setup_PWM(Frame, args[1], d, 65535 - d, delivered[1]).st.log)
                        = ConfigBytes(args[1], d, 65535 - d)

C10_Witness ==
    /\ op = "setup_PWM"
    /\ args = <<0, 500, 1000>>
    /\ BytesOf(log) = <<18, 0, 1, 244, 3, 232>>
    /\ IsResponse(log[Len(log)])

----------------------------------------------------------------------------
(* Acknowledgments, self test, frame and retry budget: C11 - C20           *)

\* A log without its waits.
RECURSIVE NoWaits(_)
NoWaits(lg) ==
    IF lg = <<>> THEN <<>>
    ELSE IF Head(lg).e = "timeout" THEN NoWaits(Tail(lg))
    ELSE <<Head(lg)>> \o NoWaits(Tail(lg))

\* C11: setup_PWM makes exactly one 1-byte read, after its six writes; it
\* ends without the setup error when that read delivers 0x01 and with the
\* setup error when it delivers anything else, so that its caller can tell
\* success from failure.
C11_SetupAck ==
    op = "setup_PWM" =>
        /\ Count(log, EvResponse(1)) = 1
        /\ BytesAsked(log) = 1
        /\ log[Len(log)] = EvResponse(1)
        /\ Len(BytesOf(log)) = 6
        /\ delivered[1] = <<1>> => result.kind # "raise"
        /\ delivered[1] # <<1>> => result = Raise("ValueError")

\* The collaborator calls of a selftest(complete) call, waits left out.
SelftestCalls(complete) ==
    <<EvWrite(IF complete = 1 THEN 17 ELSE 16), EvResponse(1),
      EvWrite(255), EvResponse(1)>>

\* C12 as stated: selftest writes 0x11 when complete and 0x10 otherwise,
\* reads 1 byte, writes 0xFF, reads 1 byte; a final byte other than 0x01
\* gives ProtocolError and no count, a final byte 0x01 gives the error
\* count as an integer in 0..255.
C12_SelftestResult ==
    op = "selftest" =>
        /\ NoWaits(log) = SelftestCalls(args[1])
        /\ delivered[2] # <<1>> => result = Raise("ProtocolError")
        /\ delivered[2] = <<1>> => (result.kind = "return" /\ result.val \in 0..255)

\* C12 as the code has it: with a final byte 0x01 the error count is
\* returned when the first read delivered a byte; when the first read
\* timed out, ord() of the empty string raises TypeError.
C12_SelftestResultAmended ==
    op = "selftest" =>
        /\ NoWaits(log) = SelftestCalls(args[1])
        /\ delivered[2] # <<1>> => result = Raise("ProtocolError")
        /\ (delivered[2] = <<1>> /\ Len(delivered[1]) = 1) =>
              (result = Return(delivered[1][1]) /\ result.val \in 0..255)
        /\ (delivered[2] = <<1>> /\ delivered[1] = <<>>) =>
              result = Raise("TypeError")

C12_Witness ==
    /\ op = "selftest"
    /\ args = <<1>>
    /\ delivered = <<<<3>>, <<1>>>>
    /\ result = Return(3)
    /\ BytesOf(log) = <<17, 255>>

\* C13: disable_PWM writes the one byte 0x13 and makes one 1-byte read; it
\* succeeds when the read delivers 0x01 and fails with the disable error
\* otherwise, and never writes 0x13 a second time.
C13_DisableAck ==
    op = "disable_PWM" =>
        /\ NoWaits(log) = <<EvWrite(19), EvResponse(1)>>
        /\ delivered[1] = <<1>> => result.kind # "raise"
        /\ delivered[1] # <<1>> => result = Raise("ValueError")

\* C14: a single ADC read writes the one byte 0x14 and makes one 2-byte
\* read, no more; the two bytes are decoded big-endian, raw = first * 256
\* + second in 0..65535, the voltage being raw * 66 in units of 1/10240 V.
\* get_next_adc_voltage decodes the sample it returns by the same rule.
\* The last conjunct runs the single read over every pair of bytes.
C14_AdcDecode ==
    /\ op = "adc" =>
          /\ NoWaits(log) = <<EvWrite(20), EvResponse(2)>>
          /\ BytesAsked(log) = 2
          /\ IsSample(delivered[1]) =>
                \E raw \in 0..65535 :
                    /\ raw = delivered[1][1] * 256 + delivered[1][2]
                    /\ result = Return(raw * 66)
          /\ delivered[1] = <<6, 16>> =>
                \A a \in 0..255, b \in 0..255 :
                    adc(Frame, <<a, b>>).res = Return((a * 256 + b) * 66)
    /\ (op = "get_next_adc_voltage" /\ result.kind = "return") =>
          result.val = (delivered[Len(delivered)][1] * 256
                            + delivered[Len(delivered)][2]) * 66

C14_Witness ==
    /\ op = "adc"
    /\ delivered = <<<<6, 16>>>>
    /\ result = Return(1552 * 66)
    /\ NoWaits(log) = <<EvWrite(20), EvResponse(2)>>

\* C15: a get_next_adc_voltage call ends whatever the port delivers: it
\* fetches at most one sample more than the Retry Helper grants attempts,
\* also when the port has further samples at or above 10.0 V to deliver,
\* and a call that has fetched that many and dropped them all ends with
\* the helper's refusal.
C15_StreamingCapped ==
    op = "get_next_adc_voltage" =>
        /\ Len(delivered) <= MaxRecurse + 1
        /\ Count(log, EvResponse(2)) = Len(delivered)
        /\ Count(log, EvRecurse) <= MaxRecurse
        /\ result.kind \in {"return", "raise"}
        /\ (/\ Len(delivered) = MaxRecurse + 1
            /\ \A i \in 1..Len(delivered) :
                  IsSample(delivered[i]) /\ SampleVolts(delivered[i]) >= 102400) =>
              result = Raise("RetryError")

C15_Witness ==
    /\ op = "get_next_adc_voltage"
    /\ Len(delivered) = MaxRecurse + 1
    /\ \A i \in 1..Len(delivered) : delivered[i] = <<255, 255>>
    /\ result = Raise("RetryError")

\* C16: every selftest call writes 0xFF exactly once, after the read of the
\* error count and before the read of the acknowledgment, whether it ends
\* with a return or with an exception: opcode, read, 0xFF, read.
C16_SelftestExitOrder ==
    op = "selftest" =>
        /\ Count(log, EvWrite(255)) = 1
        /\ Len(NoWaits(log)) = 4
        /\ IsWrite(log[1]) /\ log[1].x \in {16, 17}
        /\ \E i \in 2..(Len(log) - 1) :
              /\ log[i] = EvWrite(255)
              /\ Count(SubSeq(log, 1, i - 1), EvResponse(1)) = 1
              /\ Count(SubSeq(log, 1, i - 1), EvWrite(log[1].x)) = 1
              /\ SubSeq(log, i + 1, Len(log)) = <<EvResponse(1)>>

C16_Witness ==
    /\ op = "selftest"
    /\ result = Raise("ProtocolError")
    /\ delivered = <<<<3>>, <<0>>>>
    /\ BytesOf(log) = <<16, 255>>

\* The operations that are no part of ADC streaming.
FrameOps == {"adc", "selftest", "set_pwm_frequency", "setup_PWM", "disable_PWM"}

\* C17: the single ADC read, selftest, set_pwm_frequency, setup_PWM and
\* disable_PWM leave the session mode as they found it, whether they end
\* with a return or with an exception, and none of them re-enters bitbang
\* mode.
C17_ModeUnchanged ==
    [][op' \in FrameOps =>
           /\ mode' = mode
           /\ Count(log', EvEnterBB) = 0]_vars

C17_Witness ==
    /\ op = "disable_PWM"
    /\ result.kind = "raise"
    /\ mode = "bb"

\* C18: every value a call hands to write is one byte, 0..255; and a
\* set_pwm_frequency call with accepted arguments writes the six values of
\* its configuration, each of them one byte, whichever prescaler the
\* search selects.
C18_WritesAreBytes ==
    /\ \A i \in 1..Len(log) : IsWrite(log[i]) => log[i].x \in 0..255
    /\ (op = "set_pwm_frequency" /\ PwmAccepted(args)) =>
          /\ Len(BytesOf(log)) >= 6
          /\ \A i \in 1..6 : BytesOf(log)[i] \in 0..255

\* C19: a set_pwm_frequency call with accepted arguments transmits a
\* configuration whose registers satisfy 0 <= duty <= period < 65535 and
\* are the values the search computed, so the split into bytes loses no
\* bits.
C19_RegistersFit ==
    (op = "set_pwm_frequency" /\ PwmAccepted(args)) =>
        LET w == BytesOf(log)
        IN  /\ Len(w) >= 6
            /\ locals.bound
            /\ 0 <= locals.OCR
            /\ locals.OCR <= locals.PRy
            /\ locals.PRy < 65535
            /\ w[3] * 256 + w[4] = locals.OCR
            /\ w[5] * 256 + w[6] = locals.PRy

\* C20: when a get_next_adc_voltage or set_pwm_frequency call has ended,
\* by a return or by an exception, the attempt counter of the Retry Helper
\* is at its reset value.
C20_RetryBudgetRestored ==
    op \in {"get_next_adc_voltage", "set_pwm_frequency"} => recurse_count = 0

====
